---------------------------- MODULE Spec2Model ----------------------------
(***************************************************************************)
(* A model of src/server.js: the Express route handlers over the two       *)
(* Mongoose collections (User, Post) and the process's shutdown handler.   *)
(*                                                                         *)
(* Every `await` of a handler that reaches the database is one atomic      *)
(* step (MongoDB executes a single-document operation atomically); the     *)
(* synchronous code between two awaits belongs to the step of the await    *)
(* before it.  Handlers of different requests interleave at those awaits.  *)
(*                                                                         *)
(* ObjectIds are natural numbers in the order of creation.  Requests carry *)
(* every field their route reads, so schema validation never fails.  The   *)
(* routes that only read users (GET /users, GET /user/:id, GET             *)
(* /user/:userId/friends) and the profile-picture update are left out: no  *)
(* property below reads a field they touch.                                *)
(***************************************************************************)
EXTENDS Naturals, Sequences, FiniteSets

(***************************************************************************)
(* Bounds and input domains.                                               *)
(***************************************************************************)
\* Number of requests the server receives in one behaviour.
MaxRequests == 4

\* Posts ever created, the seeded one included.
MaxPosts == 2

\* Concurrent requests of one route.
Slots == {1, 2}
OneSlot == {1}

Usernames == {"alice", "bob"}
Emails    == {"a@x", "b@x"}
Passwords == {"pw1", "pw2"}
\* bcrypt draws a fresh salt for every hash.
Salts     == {"s1", "s2"}
Contents  == {"hello"}
\* Identifiers a client can send: 1 and 2 are the registered users of a
\* seeded database, 3 is the identifier of no stored document.
ClientIds == {1, 2, 3}
\* The post routes never look their userId up: the registered two stand for any.
ActorIds == {1, 2}

\* bcrypt.hash(password, 10)
BcryptCost == 10
\* jwt.sign(..., { expiresIn: '1h' }), in seconds
TokenExpiry == 3600

\* Post identifiers a client can send.
PostIds == 1 .. MaxPosts

NoDoc == [none |-> TRUE]
Idle  == [pc |-> "idle"]

VARIABLES
    users,       \* User collection: _id -> document
    posts,       \* Post collection: _id -> document
    nextPostId,  \* ObjectIds are never reused
    signupReq,   \* POST /signup handlers in flight
    loginReq,    \* POST /login handlers in flight
    createReq,   \* POST /posts handlers in flight
    likeReq,     \* POST /post/like handlers in flight
    delReq,      \* DELETE /posts/:postId handlers in flight
    friendReq,   \* POST /add-friend handlers in flight
    lastResp,    \* the response sent last
    started,     \* requests received so far
    overlap,     \* history: a request was received while another was in flight
    hist,        \* history: the last calls that ran one after the other, alone
    dbState,     \* mongoose.connection: connected, disconnecting, disconnected
    listening,   \* the HTTP listener accepts connections
    shutdownPc,  \* running, closingDb, closingServer, exited
    exitCode,    \* none while the process runs, then exit(0) or exit(1)
    events       \* history: the shutdown steps in the order they happened

dbVars   == <<users, posts, nextPostId>>
reqVars  == <<signupReq, loginReq, createReq, likeReq, delReq, friendReq>>
histVars == <<lastResp, started, overlap, hist>>
procVars == <<dbState, listening, shutdownPc, exitCode, events>>
vars     == <<dbVars, reqVars, histVars, procVars>>

(***************************************************************************)
(* Helpers.                                                                *)
(***************************************************************************)
Members(seq) == {seq[i] : i \in DOMAIN seq}

Count(x, seq) == Cardinality({i \in DOMAIN seq : seq[i] = x})

NoDuplicates(seq) == \A i, j \in DOMAIN seq : seq[i] = seq[j] => i = j

Last2(seq) == IF Len(seq) > 2 THEN SubSeq(seq, Len(seq) - 1, Len(seq)) ELSE seq

BusyIn(f) == {s \in DOMAIN f : f[s].pc # "idle"}

BusyCount ==
    Cardinality(BusyIn(signupReq)) + Cardinality(BusyIn(loginReq))
  + Cardinality(BusyIn(createReq)) + Cardinality(BusyIn(likeReq))
  + Cardinality(BusyIn(delReq)) + Cardinality(BusyIn(friendReq))

\* A new request takes the lowest free handler slot of its route.
FreeSlot(f, s) == f[s].pc = "idle" /\ \A t \in DOMAIN f : t < s => f[t].pc # "idle"

Alive == shutdownPc # "exited"

\* Mongoose executes an operation only on an open connection; on a closing or
\* closed one it buffers the operation and the handler stalls.
DbUp == Alive /\ dbState = "connected"

(***************************************************************************)
(* The two schemas (lines 27-67) and what the driver does for them.        *)
(***************************************************************************)
IncludesNever(seq, x) == FALSE

\* MongooseArray.includes
Includes(seq, x) == x \in Members(seq)

\* { $pull: { likes: userId } }: removes every occurrence
Pull(seq, x) ==
    LET Keep(y) == y # x IN SelectSeq(seq, Keep)

\* bcrypt.hash: a salted digest, never the password itself
Hash(password, salt) ==
    [alg |-> "bcrypt", cost |-> BcryptCost, salt |-> salt, digest |-> <<salt, password>>]

CompareAlwaysTrue(password, hash) == TRUE

\* bcrypt.compare: re-hashes the candidate with the stored hash's salt
Compare(password, hash) == Hash(password, hash.salt) = hash

\* jwt.sign({ id: user._id }, secret, { expiresIn: '1h' })
Sign(id) == [id |-> id, expiresIn |-> TokenExpiry]

\* User.findOne({ email }) / User.findOne({ username }): the first match
FindOneByEmail(email) ==
    LET hits == {id \in DOMAIN users : users[id].email = email}
    IN  IF hits = {} THEN NoDoc
        ELSE LET id == CHOOSE i \in hits : \A j \in hits : i <= j
             IN  [none |-> FALSE, id |-> id, doc |-> users[id]]

FindOneByUsername(username) ==
    LET hits == {id \in DOMAIN users : users[id].username = username}
    IN  IF hits = {} THEN NoDoc
        ELSE LET id == CHOOSE i \in hits : \A j \in hits : i <= j
             IN  [none |-> FALSE, id |-> id, doc |-> users[id]]

UniqueIndexMissing(username, email) == TRUE

\* The unique indexes of UserSchema (username, email: unique: true): an insert
\* of a duplicate key is refused by the store (E11000).
UniqueIndexOk(username, email) ==
    \A id \in DOMAIN users :
        users[id].username # username /\ users[id].email # email

NewUserId == Cardinality(DOMAIN users) + 1

NewUser(username, email, hashed) ==
    [username |-> username, email |-> email, password |-> hashed,
     profilePicture |-> "", friends |-> <<>>]

NewPost(userId, content) ==
    [userId |-> userId, content |-> content, image |-> "", likes |-> <<>>,
     comments |-> <<>>, privacy |-> "Public"]

(***************************************************************************)
(* Receiving a request and sending its response.                           *)
(***************************************************************************)
\* The calls the history follows: the two list-toggling routes.
Tracked == {"like", "addFriend"}

DbSnapshot == [users |-> users, posts |-> posts]

\* A request is received.  The history keeps a call that arrives while no
\* other request is in flight; any other arrival ends the sequence.
Recv(op, req) ==
    /\ Alive /\ listening
    /\ started < MaxRequests
    /\ started' = started + 1
    /\ overlap' = (overlap \/ BusyCount > 0)
    /\ hist' = IF BusyCount > 0 \/ op \notin Tracked THEN <<>>
               ELSE Last2(Append(hist,
                        [op |-> op, req |-> req, status |-> 0,
                         before |-> DbSnapshot, after |-> DbSnapshot]))
    /\ UNCHANGED lastResp

\* res.status(status).json(body) of the handler whose state is req.  The
\* collections' primed values are set by the step that responds.
Send(op, req, status, body) ==
    /\ lastResp' = [op |-> op, req |-> req, status |-> status, body |-> body]
    /\ hist' = IF overlap \/ op \notin Tracked THEN <<>>
               ELSE [hist EXCEPT ![Len(hist)] =
                        [@ EXCEPT !.status = status,
                                  !.after = [users |-> users', posts |-> posts']]]
    /\ overlap' = (BusyCount > 1)
    /\ UNCHANGED started

\* An await that is neither the first nor the last step of its handler.
Continue == UNCHANGED histVars

(***************************************************************************)
(* POST /signup (lines 74-96).                                             *)
(***************************************************************************)
SignupRecv(s, username, email, password) ==
    /\ FreeSlot(signupReq, s)
    /\ Recv("signup", [username |-> username, email |-> email])
    /\ signupReq' = [signupReq EXCEPT ![s] =
            [pc |-> "findEmail", username |-> username, email |-> email,
             password |-> password]]
    /\ UNCHANGED <<dbVars, loginReq, createReq, likeReq, delReq, friendReq, procVars>>

\* line 78-81
SignupFindEmail(s) ==
    LET r == signupReq[s] IN
    /\ r.pc = "findEmail"
    /\ DbUp
    /\ IF ~FindOneByEmail(r.email).none
       THEN /\ signupReq' = [signupReq EXCEPT ![s] = Idle]
            /\ UNCHANGED dbVars
            /\ Send("signup", r, 400, "Email already registered")
       ELSE /\ signupReq' = [signupReq EXCEPT ![s].pc = "findUsername"]
            /\ UNCHANGED dbVars
            /\ Continue
    /\ UNCHANGED <<loginReq, createReq, likeReq, delReq, friendReq, procVars>>

\* line 83-86
SignupFindUsername(s) ==
    LET r == signupReq[s] IN
    /\ r.pc = "findUsername"
    /\ DbUp
    /\ IF ~FindOneByUsername(r.username).none
       THEN /\ signupReq' = [signupReq EXCEPT ![s] = Idle]
            /\ UNCHANGED dbVars
            /\ Send("signup", r, 400, "Username already taken")
       ELSE /\ signupReq' = [signupReq EXCEPT ![s].pc = "save"]
            /\ UNCHANGED dbVars
            /\ Continue
    /\ UNCHANGED <<loginReq, createReq, likeReq, delReq, friendReq, procVars>>

\* line 88-95: hash, new User, save; a refused insert goes to the error
\* middleware (lines 259-262).  bcrypt.hash touches no shared state, so its
\* await is part of this step.
SignupSave(s, salt) ==
    LET r == signupReq[s] IN
    /\ r.pc = "save"
    /\ DbUp
    /\ signupReq' = [signupReq EXCEPT ![s] = Idle]
    /\ IF UniqueIndexOk(r.username, r.email)
       THEN /\ users' = [id \in DOMAIN users \cup {NewUserId} |->
                           IF id \in DOMAIN users THEN users[id]
                           ELSE NewUser(r.username, r.email, Hash(r.password, salt))]
            /\ UNCHANGED <<posts, nextPostId>>
            /\ Send("signup", r, 201, "User registered successfully")
       ELSE /\ UNCHANGED dbVars
            /\ Send("signup", r, 500, "Internal Server Error")
    /\ UNCHANGED <<loginReq, createReq, likeReq, delReq, friendReq, procVars>>

(***************************************************************************)
(* POST /login (lines 101-113).                                            *)
(***************************************************************************)
LoginRecv(s, email, password) ==
    /\ FreeSlot(loginReq, s)
    /\ Recv("login", [email |-> email])
    /\ loginReq' = [loginReq EXCEPT ![s] =
            [pc |-> "find", email |-> email, password |-> password, user |-> NoDoc]]
    /\ UNCHANGED <<dbVars, signupReq, createReq, likeReq, delReq, friendReq, procVars>>

\* line 104-105
LoginFind(s) ==
    LET r == loginReq[s]
        found == FindOneByEmail(r.email)
    IN
    /\ r.pc = "find"
    /\ DbUp
    /\ UNCHANGED dbVars
    /\ IF found.none
       THEN /\ loginReq' = [loginReq EXCEPT ![s] = Idle]
            /\ Send("login", r, 400, [error |-> "User not found", token |-> NoDoc])
       ELSE /\ loginReq' = [loginReq EXCEPT ![s].pc = "compare", ![s].user = found]
            /\ Continue
    /\ UNCHANGED <<signupReq, createReq, likeReq, delReq, friendReq, procVars>>

\* line 106-109
LoginCompare(s) ==
    LET r == loginReq[s] IN
    /\ r.pc = "compare"
    /\ Alive
    /\ UNCHANGED dbVars
    /\ loginReq' = [loginReq EXCEPT ![s] = Idle]
    /\ IF ~Compare(r.password, r.user.doc.password)
       THEN Send("login", r, 400, [error |-> "Invalid credentials", token |-> NoDoc])
       ELSE Send("login", r, 200, [token |-> Sign(r.user.id), user |-> r.user.doc])
    /\ UNCHANGED <<signupReq, createReq, likeReq, delReq, friendReq, procVars>>

(***************************************************************************)
(* POST /posts (lines 116-130) and GET /posts (lines 133-140).             *)
(***************************************************************************)
\* populate('userId', 'username'): the owner's document, or null
Populate(p) ==
    [id |-> p,
     likes |-> posts[p].likes,
     owner |-> IF posts[p].userId \in DOMAIN users
               THEN users[posts[p].userId].username ELSE "null"]

CreateRecv(s, userId, content) ==
    /\ FreeSlot(createReq, s)
    /\ nextPostId <= MaxPosts
    /\ Recv("createPost", [userId |-> userId])
    /\ createReq' = [createReq EXCEPT ![s] =
            [pc |-> "save", userId |-> userId, content |-> content, id |-> 0]]
    /\ UNCHANGED <<dbVars, signupReq, loginReq, likeReq, delReq, friendReq, procVars>>

\* line 120-121: new Post draws the ObjectId, save inserts the document
CreateSave(s) ==
    LET r == createReq[s] IN
    /\ r.pc = "save"
    /\ DbUp
    /\ posts' = [p \in DOMAIN posts \cup {nextPostId} |->
                    IF p \in DOMAIN posts THEN posts[p]
                    ELSE NewPost(r.userId, r.content)]
    /\ nextPostId' = nextPostId + 1
    /\ createReq' = [createReq EXCEPT ![s].pc = "populate", ![s].id = nextPostId]
    /\ Continue
    /\ UNCHANGED <<users, signupReq, loginReq, likeReq, delReq, friendReq, procVars>>

\* line 124-126
CreatePopulate(s) ==
    LET r == createReq[s] IN
    /\ r.pc = "populate"
    /\ DbUp
    /\ UNCHANGED dbVars
    /\ createReq' = [createReq EXCEPT ![s] = Idle]
    /\ Send("createPost", r, 201,
            IF r.id \in DOMAIN posts THEN Populate(r.id) ELSE NoDoc)
    /\ UNCHANGED <<signupReq, loginReq, likeReq, delReq, friendReq, procVars>>

\* line 135-136: the handler's only await; the request is received and
\* answered in one step
ListPosts ==
    /\ DbUp /\ listening
    /\ started < MaxRequests
    /\ started' = started + 1
    /\ UNCHANGED dbVars
    /\ lastResp' = [op |-> "listPosts", req |-> Idle, status |-> 200,
                    body |-> {Populate(p) : p \in DOMAIN posts}]
    /\ hist' = <<>>
    /\ overlap' = (BusyCount > 0)
    /\ UNCHANGED <<reqVars, procVars>>

(***************************************************************************)
(* POST /post/like (lines 142-162).                                        *)
(***************************************************************************)
LikeRecv(s, userId, postId) ==
    /\ FreeSlot(likeReq, s)
    /\ Recv("like", [userId |-> userId, postId |-> postId])
    /\ likeReq' = [likeReq EXCEPT ![s] =
            [pc |-> "find", userId |-> userId, postId |-> postId, post |-> NoDoc]]
    /\ UNCHANGED <<dbVars, signupReq, loginReq, createReq, delReq, friendReq, procVars>>

\* line 145-147: findById, then the membership test and the push on the
\* handler's own copy of the document.  A null post throws at post.likes.
LikeFind(s) ==
    LET r == likeReq[s] IN
    /\ r.pc = "find"
    /\ DbUp
    /\ UNCHANGED dbVars
    /\ IF r.postId \notin DOMAIN posts
       THEN /\ likeReq' = [likeReq EXCEPT ![s] = Idle]
            /\ Send("like", r, 500, "Internal Server Error")
       ELSE IF ~Includes(posts[r.postId].likes, r.userId)
       THEN /\ likeReq' = [likeReq EXCEPT ![s].pc = "save",
                   ![s].post = [id |-> r.postId,
                                likes |-> Append(posts[r.postId].likes, r.userId)]]
            /\ Continue
       ELSE /\ likeReq' = [likeReq EXCEPT ![s].pc = "pull"]
            /\ Continue
    /\ UNCHANGED <<signupReq, loginReq, createReq, delReq, friendReq, procVars>>

SaveWholeArray(stored, local, pushed) == local

\* What document.save() writes for an array changed by push(): Mongoose
\* tracks the change and sends the atomic { $push: { path: { $each: [x] } } },
\* which the store applies to the array it holds, not the handler's copy.
SavePushed(stored, local, pushed) == Append(stored, pushed)

\* line 148, 158: a save that matches no document fails (500)
LikeSave(s) ==
    LET r == likeReq[s] IN
    /\ r.pc = "save"
    /\ DbUp
    /\ likeReq' = [likeReq EXCEPT ![s] = Idle]
    /\ UNCHANGED <<users, nextPostId>>
    /\ IF r.postId \in DOMAIN posts
       THEN /\ posts' = [posts EXCEPT ![r.postId].likes =
                            SavePushed(@, r.post.likes, r.userId)]
            /\ Send("like", r, 200, r.post)
       ELSE /\ UNCHANGED posts
            /\ Send("like", r, 500, "Internal Server Error")
    /\ UNCHANGED <<signupReq, loginReq, createReq, delReq, friendReq, procVars>>

\* line 151-155: findByIdAndUpdate with $pull and { new: true }; null when the
\* post is gone, and post.save() then throws
LikePull(s) ==
    LET r == likeReq[s] IN
    /\ r.pc = "pull"
    /\ DbUp
    /\ UNCHANGED <<users, nextPostId>>
    /\ IF r.postId \in DOMAIN posts
       THEN /\ posts' = [posts EXCEPT ![r.postId].likes = Pull(@, r.userId)]
            /\ likeReq' = [likeReq EXCEPT ![s].pc = "resave",
                   ![s].post = [id |-> r.postId,
                                likes |-> Pull(posts[r.postId].likes, r.userId)]]
            /\ Continue
       ELSE /\ UNCHANGED posts
            /\ likeReq' = [likeReq EXCEPT ![s] = Idle]
            /\ Send("like", r, 500, "Internal Server Error")
    /\ UNCHANGED <<signupReq, loginReq, createReq, delReq, friendReq, procVars>>

\* line 156, 158: save() of the unmodified document writes nothing.  Whether
\* it fails when the document has been deleted meanwhile depends on the
\* Mongoose release, so both outcomes are allowed.
LikeResave(s, gone) ==
    LET r == likeReq[s] IN
    /\ r.pc = "resave"
    /\ DbUp
    /\ UNCHANGED dbVars
    /\ likeReq' = [likeReq EXCEPT ![s] = Idle]
    /\ IF r.postId \in DOMAIN posts \/ gone = 200
       THEN Send("like", r, 200, r.post)
       ELSE Send("like", r, 500, "Internal Server Error")
    /\ UNCHANGED <<signupReq, loginReq, createReq, delReq, friendReq, procVars>>

(***************************************************************************)
(* DELETE /posts/:postId (lines 164-184).                                  *)
(***************************************************************************)
DelRecv(s, postId, userId) ==
    /\ FreeSlot(delReq, s)
    /\ Recv("deletePost", [userId |-> userId, postId |-> postId])
    /\ delReq' = [delReq EXCEPT ![s] =
            [pc |-> "find", postId |-> postId, userId |-> userId]]
    /\ UNCHANGED <<dbVars, signupReq, loginReq, createReq, likeReq, friendReq, procVars>>

OwnerCheckSkipped(post, userId) == TRUE

\* line 175: post.userId.toString() !== userId
IsOwner(post, userId) == post.userId = userId

\* line 169-177
DelFind(s) ==
    LET r == delReq[s] IN
    /\ r.pc = "find"
    /\ DbUp
    /\ UNCHANGED dbVars
    /\ IF r.postId \notin DOMAIN posts
       THEN /\ delReq' = [delReq EXCEPT ![s] = Idle]
            /\ Send("deletePost", r, 404, "Post not found")
       ELSE IF ~IsOwner(posts[r.postId], r.userId)
       THEN /\ delReq' = [delReq EXCEPT ![s] = Idle]
            /\ Send("deletePost", r, 403, "You can only delete your own posts")
       ELSE /\ delReq' = [delReq EXCEPT ![s].pc = "delete"]
            /\ Continue
    /\ UNCHANGED <<signupReq, loginReq, createReq, likeReq, friendReq, procVars>>

\* line 179-180: findByIdAndDelete removes the document if it is still there
DelDelete(s) ==
    LET r == delReq[s] IN
    /\ r.pc = "delete"
    /\ DbUp
    /\ posts' = [p \in DOMAIN posts \ {r.postId} |-> posts[p]]
    /\ UNCHANGED <<users, nextPostId>>
    /\ delReq' = [delReq EXCEPT ![s] = Idle]
    /\ Send("deletePost", r, 200, "Post deleted successfully")
    /\ UNCHANGED <<signupReq, loginReq, createReq, likeReq, friendReq, procVars>>

(***************************************************************************)
(* POST /add-friend (lines 197-209).                                       *)
(***************************************************************************)
FriendRecv(s, userId, friendId) ==
    /\ FreeSlot(friendReq, s)
    /\ Recv("addFriend", [userId |-> userId, friendId |-> friendId])
    /\ friendReq' = [friendReq EXCEPT ![s] =
            [pc |-> "find", userId |-> userId, friendId |-> friendId,
             friends |-> <<>>]]
    /\ UNCHANGED <<dbVars, signupReq, loginReq, createReq, likeReq, delReq, procVars>>

\* line 200-202, 205: findById, the membership test, the push on the
\* handler's copy; a null user throws at user.friends
FriendFind(s) ==
    LET r == friendReq[s] IN
    /\ r.pc = "find"
    /\ DbUp
    /\ UNCHANGED dbVars
    /\ IF r.userId \notin DOMAIN users
       THEN /\ friendReq' = [friendReq EXCEPT ![s] = Idle]
            /\ Send("addFriend", r, 500, "Internal Server Error")
       ELSE IF ~Includes(users[r.userId].friends, r.friendId)
       THEN /\ friendReq' = [friendReq EXCEPT ![s].pc = "save",
                   ![s].friends = Append(users[r.userId].friends, r.friendId)]
            /\ Continue
       ELSE /\ friendReq' = [friendReq EXCEPT ![s] = Idle]
            /\ Send("addFriend", r, 200, "Friend Added")
    /\ UNCHANGED <<signupReq, loginReq, createReq, likeReq, delReq, procVars>>

\* line 203, 205: users are never deleted, so the save matches its document
FriendSave(s) ==
    LET r == friendReq[s] IN
    /\ r.pc = "save"
    /\ DbUp
    /\ users' = [users EXCEPT ![r.userId].friends =
                    SavePushed(@, r.friends, r.friendId)]
    /\ UNCHANGED <<posts, nextPostId>>
    /\ friendReq' = [friendReq EXCEPT ![s] = Idle]
    /\ Send("addFriend", r, 200, "Friend Added")
    /\ UNCHANGED <<signupReq, loginReq, createReq, likeReq, delReq, procVars>>

(***************************************************************************)
(* shutdown (lines 265-281).                                               *)
(***************************************************************************)
\* line 266-268, up to the await: connection.close() has been called
Signal ==
    /\ shutdownPc = "running"
    /\ shutdownPc' = "closingDb"
    /\ dbState' = "disconnecting"
    /\ UNCHANGED <<listening, exitCode, events>>
    /\ UNCHANGED <<dbVars, reqVars, histVars>>

\* line 268-270: the close resolves and the handler goes on, in the same
\* turn of the event loop, to server.close(callback)
DbClosed ==
    /\ shutdownPc = "closingDb"
    /\ dbState' = "disconnected"
    /\ listening' = FALSE
    /\ events' = events \o <<"dbClosed", "listenerStopped">>
    /\ shutdownPc' = "closingServer"
    /\ UNCHANGED exitCode
    /\ UNCHANGED <<dbVars, reqVars, histVars>>

\* line 274-277: the close rejects
DbCloseFailed ==
    /\ shutdownPc = "closingDb"
    /\ shutdownPc' = "exited"
    /\ exitCode' = "exit(1)"
    /\ listening' = FALSE
    /\ events' = Append(events, "exit")
    /\ UNCHANGED dbState
    /\ UNCHANGED <<dbVars, reqVars, histVars>>

\* line 270-273: the callback of server.close runs once the connections of
\* the requests in flight have ended
ServerClosed ==
    /\ shutdownPc = "closingServer"
    /\ BusyCount = 0
    /\ shutdownPc' = "exited"
    /\ exitCode' = "exit(0)"
    /\ events' = Append(events, "exit")
    /\ UNCHANGED <<dbState, listening>>
    /\ UNCHANGED <<dbVars, reqVars, histVars>>

(***************************************************************************)
(* Initial states and specifications.                                      *)
(***************************************************************************)
InitProcess ==
    /\ signupReq = [s \in Slots |-> Idle]
    /\ loginReq = [s \in OneSlot |-> Idle]
    /\ createReq = [s \in OneSlot |-> Idle]
    /\ likeReq = [s \in Slots |-> Idle]
    /\ delReq = [s \in OneSlot |-> Idle]
    /\ friendReq = [s \in Slots |-> Idle]
    /\ lastResp = [op |-> "none", req |-> Idle, status |-> 0, body |-> NoDoc]
    /\ started = 0
    /\ overlap = FALSE
    /\ hist = <<>>
    /\ dbState = "connected"
    /\ listening = TRUE
    /\ shutdownPc = "running"
    /\ exitCode = "none"
    /\ events = <<>>

\* The server started on an empty database.
Init ==
    /\ users = [id \in {} |-> NoDoc]
    /\ posts = [p \in {} |-> NoDoc]
    /\ nextPostId = 1
    /\ InitProcess

\* The server started on a database that earlier runs have filled: alice and
\* bob have signed up, and alice has created one post.
InitSeeded ==
    /\ users = [id \in {1, 2} |->
                    IF id = 1 THEN NewUser("alice", "a@x", Hash("pw1", "s1"))
                    ELSE NewUser("bob", "b@x", Hash("pw2", "s2"))]
    /\ posts = [p \in {1} |-> NewPost(1, "hello")]
    /\ nextPostId = 2
    /\ InitProcess

SignupNext ==
    \/ \E s \in Slots, u \in Usernames, e \in Emails, p \in Passwords :
          SignupRecv(s, u, e, p)
    \/ \E s \in Slots : SignupFindEmail(s)
    \/ \E s \in Slots : SignupFindUsername(s)
    \/ \E s \in Slots, salt \in Salts : SignupSave(s, salt)

LoginNext ==
    \/ \E s \in OneSlot, e \in Emails, p \in Passwords : LoginRecv(s, e, p)
    \/ \E s \in OneSlot : LoginFind(s)
    \/ \E s \in OneSlot : LoginCompare(s)

PostNext ==
    \/ \E s \in OneSlot, u \in ActorIds, c \in Contents : CreateRecv(s, u, c)
    \/ \E s \in OneSlot : CreateSave(s)
    \/ \E s \in OneSlot : CreatePopulate(s)
    \/ ListPosts
    \/ \E s \in OneSlot, p \in PostIds, u \in ActorIds : DelRecv(s, p, u)
    \/ \E s \in OneSlot : DelFind(s)
    \/ \E s \in OneSlot : DelDelete(s)

LikeNext ==
    \/ \E s \in Slots, u \in ActorIds, p \in PostIds : LikeRecv(s, u, p)
    \/ \E s \in Slots : LikeFind(s)
    \/ \E s \in Slots : LikeSave(s)
    \/ \E s \in Slots : LikePull(s)
    \/ \E s \in Slots, gone \in {200, 500} : LikeResave(s, gone)

FriendNext ==
    \/ \E s \in Slots, u \in ClientIds, f \in ClientIds : FriendRecv(s, u, f)
    \/ \E s \in Slots : FriendFind(s)
    \/ \E s \in Slots : FriendSave(s)

ShutdownNext ==
    \/ Signal
    \/ DbClosed
    \/ DbCloseFailed
    \/ ServerClosed

Next ==
    \/ SignupNext
    \/ LoginNext
    \/ PostNext
    \/ LikeNext
    \/ FriendNext
    \/ ShutdownNext

\* The whole server.
Spec == Init /\ [][Next]_vars

\* Signup and login traffic on an empty database.
SpecAuth == Init /\ [][SignupNext \/ LoginNext]_vars

\* Post traffic (create, list, like, delete) on a seeded database.
SpecPosts == InitSeeded /\ [][PostNext \/ LikeNext]_vars

\* add-friend traffic on a seeded database.
SpecFriends == InitSeeded /\ [][FriendNext]_vars

\* Login traffic on a seeded database while the process is told to stop.
SpecShutdown == InitSeeded /\ [][LoginNext \/ ShutdownNext]_vars

(***************************************************************************)
(* Properties.                                                             *)
(***************************************************************************)
EmailStored(email) == \E id \in DOMAIN users : users[id].email = email

UsernameStored(username) == \E id \in DOMAIN users : users[id].username = username

\* The password a stored hash was made from is the candidate.
PasswordMatches(password, hash) == hash.digest = <<hash.salt, password>>

\* C1: in every reachable state no two stored users share an email and no
\* two share a username, whatever the interleaving of the signups.
UsersUnique ==
    \A i, j \in DOMAIN users :
        i # j => /\ users[i].email # users[j].email
                 /\ users[i].username # users[j].username

\* C1's case: a signup passed both existence checks, another signup stored
\* its email or username meanwhile, and the unique index refused its save.
RacingSignupRefused ==
    /\ lastResp.op = "signup"
    /\ lastResp.status = 500
    /\ EmailStored(lastResp.req.email) \/ UsernameStored(lastResp.req.username)

\* C2: whenever a signup is answered, if its email or its username is that of
\* a stored user the answer is 400 and the users are unchanged, and if both
\* are unused the answer is 201 and exactly one user is added.
SignupContract ==
    [][\A s \in Slots :
          (signupReq[s].pc # "idle" /\ signupReq'[s].pc = "idle") =>
              LET r == signupReq[s] IN
              /\ (EmailStored(r.email) \/ UsernameStored(r.username)) =>
                     (lastResp'.status = 400 /\ users' = users)
              /\ (~EmailStored(r.email) /\ ~UsernameStored(r.username)) =>
                     /\ lastResp'.status = 201
                     /\ Cardinality(DOMAIN users') = Cardinality(DOMAIN users) + 1
                     /\ \A id \in DOMAIN users :
                            id \in DOMAIN users' /\ users'[id] = users[id]
      ]_vars

\* C3: a deletePost that finds no post answers 404 and changes nothing; one
\* that finds a post of another owner answers 403 and leaves the post
\* stored; a post leaves the store only in the delete step of a deletePost
\* whose userId is the post's owner; listPosts returns every stored post.
DeleteContract ==
    [][/\ \A s \in OneSlot :
             (delReq[s].pc = "find" /\ delReq'[s] # delReq[s]) =>
                 LET r == delReq[s] IN
                 /\ r.postId \notin DOMAIN posts =>
                        /\ lastResp' = [op |-> "deletePost", req |-> r,
                                        status |-> 404, body |-> "Post not found"]
                        /\ posts' = posts /\ users' = users
                 /\ (r.postId \in DOMAIN posts /\ posts[r.postId].userId # r.userId) =>
                        /\ lastResp'.op = "deletePost" /\ lastResp'.req = r
                        /\ lastResp'.status = 403
                        /\ posts' = posts /\ users' = users
       /\ \A p \in DOMAIN posts \ DOMAIN posts' :
             \E s \in OneSlot :
                 /\ delReq[s].pc = "delete" /\ delReq'[s].pc = "idle"
                 /\ delReq[s].postId = p
                 /\ delReq[s].userId = posts[p].userId
       /\ (lastResp'.op = "listPosts" /\ started' # started /\ reqVars' = reqVars) =>
             {x.id : x \in lastResp'.body} = DOMAIN posts'
      ]_vars

\* C3's case: a non-owner's deletePost was answered 403 and the post is stored.
NonOwnerRefused ==
    /\ lastResp.op = "deletePost"
    /\ lastResp.status = 403
    /\ lastResp.req.postId \in DOMAIN posts
    /\ posts[lastResp.req.postId].userId # lastResp.req.userId

\* Two toggleLike calls with the same userId on the same existing post ran one
\* after the other, each alone, with no request in between.
LikePair ==
    /\ Len(hist) = 2
    /\ hist[1].op = "like" /\ hist[2].op = "like"
    /\ hist[1].req = hist[2].req
    /\ hist[1].status = 200 /\ hist[2].status = 200

LikesBefore == hist[1].before.posts[hist[1].req.postId].likes

LikesAfter == hist[2].after.posts[hist[2].req.postId].likes

\* C4, as stated: after the two calls the post's like list equals the list
\* before the first call.
ToggleTwiceSameList == LikePair => LikesAfter = LikesBefore

\* C4, amended: after the two calls the post's like list has the same members
\* as before the first call.
ToggleTwiceSameMembers == LikePair => Members(LikesAfter) = Members(LikesBefore)

\* C4's case: the pair ran on a post whose like list held the userId.
ToggledTwiceFromLiked ==
    /\ LikePair
    /\ hist[1].req.userId \in Members(LikesBefore)

\* Two addFriend calls with the same userId and friendId, for an existing
\* user, ran one after the other, each alone, with no request in between.
FriendPair ==
    /\ Len(hist) = 2
    /\ hist[1].op = "addFriend" /\ hist[2].op = "addFriend"
    /\ hist[1].req = hist[2].req
    /\ hist[1].status = 200 /\ hist[2].status = 200

\* C5: after two addFriend calls in sequence the user's friends list holds
\* friendId exactly once and the second call changed nothing; and an addFriend
\* call that ran alone changed no other user's document.
AddFriendIdempotent ==
    /\ FriendPair =>
          /\ Count(hist[2].req.friendId,
                   hist[2].after.users[hist[2].req.userId].friends) = 1
          /\ hist[2].after = hist[2].before
    /\ \A k \in DOMAIN hist :
          (hist[k].op = "addFriend" /\ hist[k].status # 0) =>
              \A u \in DOMAIN users :
                  u # hist[k].req.userId =>
                      hist[k].after.users[u] = hist[k].before.users[u]

\* C6: in every reachable state no friends list holds an identifier twice
\* and none holds its own user's identifier.
FriendsWellFormed ==
    \A u \in DOMAIN users :
        /\ NoDuplicates(users[u].friends)
        /\ u \notin Members(users[u].friends)

\* C7: a login step changes no stored state; a login answered 200 carries a
\* token with the identifier of the one stored user who has the request's
\* email, and whose stored hash was made from the request's password; any
\* other answer is 400 without a token; a login whose email no user has, or
\* whose password does not match, is answered 400.
LoginContract ==
    [][\A s \in OneSlot :
          (loginReq[s].pc # "idle" /\ loginReq'[s] # loginReq[s]) =>
              LET r == loginReq[s]
                  answered == loginReq'[s].pc = "idle"
                  holders == {id \in DOMAIN users : users[id].email = r.email}
              IN
              /\ users' = users /\ posts' = posts
              /\ answered => lastResp'.op = "login" /\ lastResp'.req = r
              /\ (answered /\ lastResp'.status = 200) =>
                     \E id \in holders :
                         /\ holders = {id}
                         /\ PasswordMatches(r.password, users[id].password)
                         /\ lastResp'.body.token.id = id
              /\ (answered /\ lastResp'.status # 200) =>
                     lastResp'.status = 400 /\ lastResp'.body.token = NoDoc
              /\ holders = {} => answered /\ lastResp'.status = 400
              /\ (r.pc = "compare"
                    /\ \A id \in holders : ~PasswordMatches(r.password, users[id].password)) =>
                     answered /\ lastResp'.status = 400
      ]_vars

\* C7's case: a login was answered 200 with a token.
LoginSucceeded ==
    /\ lastResp.op = "login"
    /\ lastResp.status = 200
    /\ lastResp.body.token.id \in DOMAIN users

\* The step in which the toggleLike handler s saves its pushed userId to a
\* stored post that holds, since the handler read it, the like of another
\* user b: the handler's copy does not have b.
SavesAfterRacingLike(s, b) ==
    /\ likeReq[s].pc = "save" /\ likeReq'[s].pc = "idle"
    /\ likeReq[s].postId \in DOMAIN posts
    /\ b # likeReq[s].userId
    /\ b \in Members(posts[likeReq[s].postId].likes)
    /\ b \notin Members(likeReq[s].post.likes)

\* C8, as stated: when two toggleLike calls by different users have both read
\* the post before either writes, the final like list has only one of the two.
RacingLikesLoseOne ==
    [][\A s \in Slots, b \in ActorIds :
          SavesAfterRacingLike(s, b) =>
              ~({b, likeReq[s].userId} \subseteq Members(posts'[likeReq[s].postId].likes))
      ]_vars

\* C8, amended: in that interleaving both calls succeed and the final like
\* list has both users; a toggle changes the membership of its own userId only.
RacingLikesKeepBoth ==
    [][\A s \in Slots :
          (likeReq[s].pc \in {"save", "pull"} /\ likeReq'[s] # likeReq[s]
             /\ likeReq[s].postId \in DOMAIN posts) =>
              LET r == likeReq[s]
                  old == Members(posts[r.postId].likes)
                  new == Members(posts'[r.postId].likes)
              IN  /\ r.pc = "save" => new = old \cup {r.userId} /\ lastResp'.status = 200
                  /\ r.pc = "pull" => new = old \ {r.userId}
      ]_vars

\* C8's case: the last response is the success of a toggleLike whose copy of
\* the post missed the like another user stored meanwhile, and both are stored.
RacingLikesBothStored ==
    /\ lastResp.op = "like" /\ lastResp.status = 200
    /\ lastResp.req.pc = "save"
    /\ lastResp.req.postId \in DOMAIN posts
    /\ lastResp.req.userId \in Members(posts[lastResp.req.postId].likes)
    /\ \E b \in Members(posts[lastResp.req.postId].likes) :
          b \notin Members(lastResp.body.likes)

\* C9: in every reachable state every post's like list holds each user
\* identifier at most once.
LikesNoDuplicates ==
    \A p \in DOMAIN posts : NoDuplicates(posts[p].likes)

\* C10: the listener stops accepting before the database connection is
\* closed, the process exits after both, and the listener is not accepting
\* once the database connection is closed.
ShutdownOrder ==
    /\ \A j \in DOMAIN events :
          events[j] = "dbClosed" =>
              \E i \in DOMAIN events : i < j /\ events[i] = "listenerStopped"
    /\ exitCode = "exit(0)" =>
          /\ events[Len(events)] = "exit"
          /\ Members(events) = {"listenerStopped", "dbClosed", "exit"}
    /\ dbState = "disconnected" => ~listening

=============================================================================
